---- MODULE Spec2Model ----
(***************************************************************************)
(* LectureLens backend: the folder indexer (backend/indexer.py) and the    *)
(* search and chat routes (backend/main.py), over one persistent vector    *)
(* collection ("slides").                                                  *)
(*                                                                         *)
(* Representation choices:                                                 *)
(*  - a text is a record [code, len]: "code" identifies the content and    *)
(*    "len" is its length in characters; text[:n] keeps the code and cuts  *)
(*    the length to n.  A request string also carries "pad", the number of *)
(*    surrounding whitespace characters that strip() removes.              *)
(*  - the vector collection is a sequence of entries in insertion order;   *)
(*    a collection that does not exist is [exists |-> FALSE].              *)
(*  - scores and distances are integers in units of 1/10000.               *)
(*  - keys a Python dict does not carry are "" , 0 and << >> here.         *)
(*  - "origin" in an entry is a history field: the root folder whose scan  *)
(*    produced the entry. The program does not store it.                   *)
(*  - "owner" of the collection stands for its id in the store: the caller *)
(*    whose create_collection made it.  The handle create_collection       *)
(*    returned reaches that collection only.                               *)
(*  - "overlapped" is a history variable: some index request has started   *)
(*    while another one was running.                                       *)
(***************************************************************************)
EXTENDS Integers, Sequences, FiniteSets, TLC

VARIABLES fs, now, coll, pc, folder, fingerprint, pages, start, files_seen,
          result, calls, pre, built, overlapped, out

vars == <<fs, now, coll, pc, folder, fingerprint, pages, start, files_seen,
          result, calls, pre, built, overlapped, out>>

(***************************************************************************)
(* Bounds                                                                  *)
(***************************************************************************)
\* number of file-system changes in one behaviour
MaxClock == 2
\* number of pages of the large document
BigPages == 33

(***************************************************************************)
(* Program constants                                                       *)
(***************************************************************************)
batch_size == 32
ROOT_ID == "__root__"

\* callers of index_folder; Spec and SpecQuery run one request at a time
Procs == {1, 2}
Roots == {"/rootA", "/rootB"}
\* relative paths of the supported files, in the order sorted() gives
SortedFiles == <<"a.pdf", "b.pdf">>
Files == {SortedFiles[i] : i \in 1..Len(SortedFiles)}
\* 0: a document whose pages are all blank, 1: three pages, page 2 blank,
\* 2: BigPages pages, page 2 blank
Shapes == {0, 1, 2}

Min(a, b) == IF a < b THEN a ELSE b
Max(a, b) == IF a < b THEN b ELSE a

RootIdx(r) == IF r = "/rootA" THEN 1 ELSE 2
FileIdx(f) == IF f = "a.pdf" THEN 1 ELSE 2

\* the text of page k of file f under root r, already stripped
PageText(r, f, k) ==
  [code |-> 1000 * RootIdx(r) + 100 * FileIdx(f) + k, len |-> 501 * k]

MarkerPhrase == [code |-> 0, len |-> 18]
MarkerDocument == [code |-> 1, len |-> 15]

\* page numbers of a document of shape s that carry text, ascending
UpTo(a, b) == [i \in 1..(b - a + 1) |-> a + i - 1]

TextPages(s) ==
  CASE s = 0 -> << >>
    [] s = 1 -> <<1, 3>>
    [] OTHER -> <<1>> \o UpTo(3, BigPages)

\* extract_pages_from_pdf: the non-blank pages, 1-indexed
extract_pages(r, f) ==
  LET ps == TextPages(fs[r][f].shape)
  IN  [i \in 1..Len(ps) |-> [page_number |-> ps[i], text |-> PageText(r, f, ps[i])]]

RECURSIVE ScanFrom(_, _)
ScanFrom(r, i) ==
  IF i > Len(SortedFiles) THEN << >>
  ELSE LET f == SortedFiles[i]
           ps == IF fs[r][f].present THEN extract_pages(r, f) ELSE << >>
       IN  [j \in 1..Len(ps) |->
              [file_path |-> f, page_number |-> ps[j].page_number,
               text |-> ps[j].text]]
           \o ScanFrom(r, i + 1)

scan_folder(r) == ScanFrom(r, 1)

\* the digest is modelled by the hashed list itself: one
\* <<absolute path, mtime>> per supported file, sorted by path
RECURSIVE FingerprintFrom(_, _)
FingerprintFrom(r, i) ==
  IF i > Len(SortedFiles) THEN << >>
  ELSE LET f == SortedFiles[i]
       IN  (IF fs[r][f].present THEN <<[path |-> r \o "/" \o f, mtime |-> fs[r][f].mtime]>>
            ELSE << >>)
           \o FingerprintFrom(r, i + 1)

folder_fingerprint(r) == FingerprintFrom(r, 1)

(***************************************************************************)
(* The embedding service: one vector per input, in input order.            *)
(***************************************************************************)
Vec(t) == <<t.code, t.len>>
generate_embeddings(texts) == [i \in 1..Len(texts) |-> Vec(texts[i])]

(***************************************************************************)
(* The vector collection store                                             *)
(***************************************************************************)
NoCollection == [exists |-> FALSE, entries |-> << >>, owner |-> 0]

EntryIds(es) == {es[i].id : i \in 1..Len(es)}

\* collection.get(ids=[id])
CollectionGet(es, id) == SelectSeq(es, LAMBDA e : e.id = id)
\* collection.get(where={"file_path": {"$ne": v}})
CollectionGetNe(es, v) == SelectSeq(es, LAMBDA e : e.metadata.file_path /= v)
\* collection.count()
CollectionCount(es) == Len(es)
\* collection.add: entries whose id is already stored are left as they are
\* (the ids of one call are distinct: a page number occurs once in a file)
CollectionAdd(es, new) ==
  LET stored == EntryIds(es)
  IN  es \o SelectSeq(new, LAMBDA e : e.id \notin stored)

(***************************************************************************)
(* index_folder, one request per process p.  pc[p] is the position in the  *)
(* function: "idle" (not called yet), "scan", "delete", "create",          *)
(* "marker", "batch", "done" (returned) or "failed" (left by an exception).*)
(***************************************************************************)
NoMessage == ""
NoResult == [status |-> "", total_pages |-> 0, total_files |-> 0,
             files |-> << >>, message |-> NoMessage]
Raised == [NoResult EXCEPT !.status = "exception"]
NoOut == [kind |-> "none"]

Returned(p) == pc[p] \in {"idle", "done", "failed"}

Call(op, n) == [op |-> op, n |-> n]

\* sorted(files) for a set of relative paths
SortedPaths(S) == SelectSeq(SortedFiles, LAMBDA f : f \in S)

RootMarker(r, fp) ==
  [id |-> ROOT_ID, document |-> MarkerDocument,
   metadata |-> [file_path |-> "__root__", page_number |-> 0,
                 root_folder |-> r, fingerprint |-> fp],
   embedding |-> generate_embeddings(<<MarkerPhrase>>)[1],
   origin |-> r]

DocId(page) == page.file_path \o "::page_" \o ToString(page.page_number)

\* BatchEntries pairing the pages with the vectors in reverse
BatchEntries_Reversed(r, batch, embeddings) ==
  [i \in 1..Len(batch) |->
     [id |-> DocId(batch[i]), document |-> batch[i].text,
      metadata |-> [file_path |-> batch[i].file_path,
                    page_number |-> batch[i].page_number,
                    root_folder |-> "", fingerprint |-> << >>],
      embedding |-> embeddings[Len(batch) + 1 - i],
      origin |-> r]]

\* the entries of one batch: ids, documents and metadatas from the pages,
\* embeddings taken by position
BatchEntries(r, batch, embeddings) ==
  [i \in 1..Len(batch) |->
     [id |-> DocId(batch[i]), document |-> batch[i].text,
      metadata |-> [file_path |-> batch[i].file_path,
                    page_number |-> batch[i].page_number,
                    root_folder |-> "", fingerprint |-> << >>],
      embedding |-> embeddings[i],
      origin |-> r]]

\* pages[start : start + batch_size]
Slice(s, from, n) == SubSeq(s, from + 1, Min(from + n, Len(s)))

\* FreshResult counting the root marker as a page
FreshResult_CountsMarker(es) ==
  LET all_meta == CollectionGetNe(es, "__root__")
      files == {all_meta[i].metadata.file_path : i \in 1..Len(all_meta)}
  IN  [status |-> "ok", total_pages |-> CollectionCount(es),
       total_files |-> Cardinality(files), files |-> SortedPaths(files),
       message |-> "Already indexed (no changes detected)"]

\* the "already indexed" summary read back from the collection
FreshResult(es) ==
  LET all_meta == CollectionGetNe(es, "__root__")
      files == {all_meta[i].metadata.file_path : i \in 1..Len(all_meta)}
  IN  [status |-> "ok", total_pages |-> CollectionCount(es) - 1,
       total_files |-> Cardinality(files), files |-> SortedPaths(files),
       message |-> "Already indexed (no changes detected)"]

\* IsFresh comparing the root folder only
IsFresh_RootOnly(c, r, fp) ==
  /\ c.exists
  /\ LET root_doc == CollectionGet(c.entries, ROOT_ID)
     IN  /\ root_doc /= << >>
         /\ root_doc[1].metadata.root_folder = r

\* the stored marker matches the freshly computed pair
IsFresh(c, r, fp) ==
  /\ c.exists
  /\ LET root_doc == CollectionGet(c.entries, ROOT_ID)
     IN  /\ root_doc /= << >>
         /\ root_doc[1].metadata.fingerprint = fp
         /\ root_doc[1].metadata.root_folder = r

\* the fingerprint and the FRESH check
IndexCheck(p, r) ==
  /\ Returned(p)
  /\ LET fp == folder_fingerprint(r)
     IN  /\ fingerprint' = [fingerprint EXCEPT ![p] = fp]
         /\ IF IsFresh(coll, r, fp)
            THEN /\ result' = [result EXCEPT ![p] = FreshResult(coll.entries)]
                 /\ pc' = [pc EXCEPT ![p] = "done"]
            ELSE /\ result' = [result EXCEPT ![p] = NoResult]
                 /\ pc' = [pc EXCEPT ![p] = "scan"]
  /\ folder' = [folder EXCEPT ![p] = r]
  /\ pages' = [pages EXCEPT ![p] = << >>]
  /\ start' = [start EXCEPT ![p] = 0]
  /\ files_seen' = [files_seen EXCEPT ![p] = {}]
  /\ calls' = [calls EXCEPT ![p] = << >>]
  /\ pre' = [pre EXCEPT ![p] = coll]
  /\ overlapped' = (overlapped \/ \E q \in Procs \ {p} : ~Returned(q))
  /\ out' = NoOut
  /\ UNCHANGED <<fs, now, coll, built>>

\* IndexScan going on to the rebuild with an empty scan
IndexScan_NoEarlyReturn(p) ==
  /\ pc[p] = "scan"
  /\ pages' = [pages EXCEPT ![p] = scan_folder(folder[p])]
  /\ pc' = [pc EXCEPT ![p] = "delete"]
  /\ out' = NoOut
  /\ UNCHANGED overlapped
  /\ UNCHANGED <<fs, now, coll, folder, fingerprint, start, files_seen, calls,
                 pre, built, result>>

\* the scan; an empty scan returns the error
IndexScan(p) ==
  /\ pc[p] = "scan"
  /\ LET ps == scan_folder(folder[p])
     IN  /\ pages' = [pages EXCEPT ![p] = ps]
         /\ IF ps = << >>
            THEN /\ result' = [result EXCEPT ![p] =
                        [NoResult EXCEPT !.status = "error",
                                         !.message = "No supported files found"]]
                 /\ pc' = [pc EXCEPT ![p] = "done"]
            ELSE /\ pc' = [pc EXCEPT ![p] = "delete"]
                 /\ UNCHANGED result
  /\ out' = NoOut
  /\ UNCHANGED overlapped
  /\ UNCHANGED <<fs, now, coll, folder, fingerprint, start, files_seen, calls,
                 pre, built>>

\* a delete_collection that leaves the collection in place
IndexDelete_Skipped(p) ==
  /\ pc[p] = "delete"
  /\ coll' = coll
  /\ calls' = [calls EXCEPT ![p] = Append(@, Call("delete", 0))]
  /\ pc' = [pc EXCEPT ![p] = "create"]
  /\ out' = NoOut
  /\ UNCHANGED overlapped
  /\ UNCHANGED <<fs, now, folder, fingerprint, pages, start, files_seen,
                 result, pre, built>>

\* delete_collection; "does not exist" is swallowed
IndexDelete(p) ==
  /\ pc[p] = "delete"
  /\ coll' = NoCollection
  /\ calls' = [calls EXCEPT ![p] = Append(@, Call("delete", 0))]
  /\ pc' = [pc EXCEPT ![p] = "create"]
  /\ out' = NoOut
  /\ UNCHANGED overlapped
  /\ UNCHANGED <<fs, now, folder, fingerprint, pages, start, files_seen,
                 result, pre, built>>

\* create_collection raises when the name is taken
IndexCreate(p) ==
  /\ pc[p] = "create"
  /\ calls' = [calls EXCEPT ![p] = Append(@, Call("create", 0))]
  /\ IF coll.exists
     THEN /\ pc' = [pc EXCEPT ![p] = "failed"]
          /\ result' = [result EXCEPT ![p] = Raised]
          /\ UNCHANGED coll
     ELSE /\ coll' = [exists |-> TRUE, entries |-> << >>, owner |-> p]
          /\ pc' = [pc EXCEPT ![p] = "marker"]
          /\ UNCHANGED result
  /\ out' = NoOut
  /\ UNCHANGED overlapped
  /\ UNCHANGED <<fs, now, folder, fingerprint, pages, start, files_seen, pre,
                 built>>

\* the collection p created is still the stored one
HandleValid(p) == coll.exists /\ coll.owner = p

\* the marker's embedding is requested, then the marker is added
IndexMarker(p) ==
  /\ pc[p] = "marker"
  /\ calls' = [calls EXCEPT ![p] = @ \o <<Call("embed", 1), Call("add", 1)>>]
  /\ IF HandleValid(p)
     THEN /\ coll' = [coll EXCEPT !.entries =
                 CollectionAdd(@, <<RootMarker(folder[p], fingerprint[p])>>)]
          /\ pc' = [pc EXCEPT ![p] = "batch"]
          /\ UNCHANGED result
     ELSE /\ pc' = [pc EXCEPT ![p] = "failed"]
          /\ result' = [result EXCEPT ![p] = Raised]
          /\ UNCHANGED coll
  /\ out' = NoOut
  /\ UNCHANGED overlapped
  /\ UNCHANGED <<fs, now, folder, fingerprint, pages, start, files_seen, pre,
                 built>>

\* the embedding service raises: the exception leaves index_folder
EmbedFails(p) ==
  /\ pc[p] \in {"marker", "batch"}
  /\ calls' = [calls EXCEPT ![p] = Append(@, Call("embed", 0))]
  /\ pc' = [pc EXCEPT ![p] = "failed"]
  /\ result' = [result EXCEPT ![p] = Raised]
  /\ out' = NoOut
  /\ UNCHANGED overlapped
  /\ UNCHANGED <<fs, now, coll, folder, fingerprint, pages, start, files_seen,
                 pre, built>>

\* one turn of the batch loop; the last turn returns the summary
IndexBatch(p) ==
  /\ pc[p] = "batch"
  /\ LET total == Len(pages[p])
         batch == Slice(pages[p], start[p], batch_size)
         texts == [i \in 1..Len(batch) |-> batch[i].text]
         embeddings == generate_embeddings(texts)
         seen == files_seen[p] \cup {batch[i].file_path : i \in 1..Len(batch)}
         next == start[p] + batch_size
     IN  /\ calls' = [calls EXCEPT ![p] =
                 @ \o <<Call("embed", Len(texts)), Call("add", Len(batch))>>]
         /\ files_seen' = [files_seen EXCEPT ![p] = seen]
         /\ start' = [start EXCEPT ![p] = next]
         /\ IF HandleValid(p)
            THEN /\ coll' = [coll EXCEPT !.entries =
                        CollectionAdd(@, BatchEntries(folder[p], batch, embeddings))]
                 /\ IF next >= total
                    THEN /\ pc' = [pc EXCEPT ![p] = "done"]
                         /\ result' = [result EXCEPT ![p] =
                                [status |-> "ok", total_pages |-> total,
                                 total_files |-> Cardinality(seen),
                                 files |-> SortedPaths(seen),
                                 message |-> NoMessage]]
                         /\ built' = TRUE
                    ELSE /\ UNCHANGED <<pc, result, built>>
            ELSE /\ pc' = [pc EXCEPT ![p] = "failed"]
                 /\ result' = [result EXCEPT ![p] = Raised]
                 /\ UNCHANGED <<coll, built>>
  /\ out' = NoOut
  /\ UNCHANGED overlapped
  /\ UNCHANGED <<fs, now, folder, fingerprint, pages, pre>>

(***************************************************************************)
(* The folder changes between requests.  Every change stamps the file      *)
(* with a new modification time.                                           *)
(***************************************************************************)
Quiet == \A p \in Procs : Returned(p)

WriteFile(r, f, s) ==
  /\ Quiet
  /\ now < MaxClock
  /\ ~(fs[r][f].present /\ fs[r][f].shape = s)
  /\ now' = now + 1
  /\ fs' = [fs EXCEPT ![r][f] = [present |-> TRUE, mtime |-> now + 1, shape |-> s]]
  /\ out' = NoOut
  /\ UNCHANGED overlapped
  /\ UNCHANGED <<coll, pc, folder, fingerprint, pages, start, files_seen,
                 result, calls, pre, built>>

TouchFile(r, f) ==
  /\ Quiet
  /\ now < MaxClock
  /\ fs[r][f].present
  /\ now' = now + 1
  /\ fs' = [fs EXCEPT ![r][f].mtime = now + 1]
  /\ out' = NoOut
  /\ UNCHANGED overlapped
  /\ UNCHANGED <<coll, pc, folder, fingerprint, pages, start, files_seen,
                 result, calls, pre, built>>

RemoveFile(r, f) ==
  /\ Quiet
  /\ now < MaxClock
  /\ fs[r][f].present
  /\ now' = now + 1
  /\ fs' = [fs EXCEPT ![r][f] = [present |-> FALSE, mtime |-> 0, shape |-> 0]]
  /\ out' = NoOut
  /\ UNCHANGED overlapped
  /\ UNCHANGED <<coll, pc, folder, fingerprint, pages, start, files_seen,
                 result, calls, pre, built>>

(***************************************************************************)
(* The query path: api_search and api_chat.  A request is answered in one  *)
(* step; "out" holds the response and what was sent to the services.       *)
(***************************************************************************)
\* str.strip() on a request string
Strip(q) == [code |-> q.code, len |-> q.len]
\* text[:n]
Prefix(t, n) == [t EXCEPT !.len = Min(t.len, n)]

\* cosine distance of two vectors in units of 1/100000, within [0, 2]
CircDist(a, b) == LET d == (a - b) % 8 IN Min(d, 8 - d)
Distance(u, v) == 25031 * CircDist(u[1] % 8, v[1] % 8)

\* position of the nearest entry of es to q; the first one among equals
Nearest(es, q) ==
  CHOOSE i \in 1..Len(es) :
    \A j \in 1..Len(es) :
      \/ Distance(q, es[i].embedding) < Distance(q, es[j].embedding)
      \/ Distance(q, es[i].embedding) = Distance(q, es[j].embedding) /\ i <= j

Without(s, i) == SubSeq(s, 1, i - 1) \o SubSeq(s, i + 1, Len(s))

RECURSIVE TopK(_, _, _)
TopK(es, q, k) ==
  IF k = 0 \/ es = << >> THEN << >>
  ELSE LET b == Nearest(es, q)
       IN  <<es[b]>> \o TopK(Without(es, b), q, k - 1)

\* CollectionQuery without the where filter
CollectionQuery_Unfiltered(es, q, k, v) ==
  LET hits == TopK(es, q, k)
  IN  [i \in 1..Len(hits) |->
         [id |-> hits[i].id, metadata |-> hits[i].metadata,
          document |-> hits[i].document,
          distance |-> Distance(q, hits[i].embedding)]]

\* collection.query(query_embeddings=[q], n_results=k,
\*                  where={"file_path": {"$ne": v}}): nearest first, fewer
\* than k when fewer entries pass the filter
CollectionQuery(es, q, k, v) ==
  LET hits == TopK(CollectionGetNe(es, v), q, k)
  IN  [i \in 1..Len(hits) |->
         [id |-> hits[i].id, metadata |-> hits[i].metadata,
          document |-> hits[i].document,
          distance |-> Distance(q, hits[i].embedding)]]

\* round(x, 4) of a value given in units of 1/100000, in units of 1/10000
\* (the values that occur are never halfway between two results)
Round4(x) == (x + 5) \div 10

\* the snippet is the first 300 characters and the "..." flag; the text
\* model has no whitespace runs to collapse
SearchResult(hit) ==
  [file_path |-> hit.metadata.file_path,
   page_number |-> hit.metadata.page_number,
   text_snippet |-> [text |-> Prefix(hit.document, 300),
                     ellipsis |-> hit.document.len > 300],
   full_text |-> hit.document,
   similarity_score |-> Round4(100000 - hit.distance)]

\* the judge's reply is a sequence of characters
Digits == <<"0", "1", "2", "3", "4", "5", "6", "7", "8", "9">>
IsDigit(c) == \E d \in 1..10 : Digits[d] = c
DigitValue(c) == (CHOOSE d \in 1..10 : Digits[d] = c) - 1

RECURSIVE LStrip(_)
LStrip(cs) == IF cs /= << >> /\ Head(cs) = " " THEN LStrip(Tail(cs)) ELSE cs
RECURSIVE RStrip(_)
RStrip(cs) ==
  IF cs /= << >> /\ cs[Len(cs)] = " " THEN RStrip(SubSeq(cs, 1, Len(cs) - 1)) ELSE cs
StripChars(cs) == RStrip(LStrip(cs))

\* _llm_relevance_score on the outcome of the chat call: int() of the first
\* character of the stripped reply, clamped; 3 on any exception
llm_relevance_score(outcome) ==
  IF ~outcome.ok THEN 3
  ELSE LET content == StripChars(outcome.content)
       IN  IF content = << >> THEN 3
           ELSE IF ~IsDigit(content[1]) THEN 3
           ELSE Max(1, Min(5, DigitValue(content[1])))

\* 0.6 * similarity + 0.4 * (llm_score / 5.0), rounded to 4 decimals
Combined(similarity_score, llm_score) ==
  Round4(6 * similarity_score + 8000 * llm_score)

\* list.sort(key=similarity_score, reverse=True): stable, descending
RECURSIVE InsertDesc(_, _)
InsertDesc(sorted, r) ==
  IF sorted = << >> THEN <<r>>
  ELSE IF Head(sorted).similarity_score >= r.similarity_score
       THEN <<Head(sorted)>> \o InsertDesc(Tail(sorted), r)
       ELSE <<r>> \o sorted

RECURSIVE SortDesc(_)
SortDesc(rs) ==
  IF rs = << >> THEN << >>
  ELSE InsertDesc(SortDesc(SubSeq(rs, 1, Len(rs) - 1)), rs[Len(rs)])

Rescored(results, judge) ==
  [i \in 1..Len(results) |->
     [results[i] EXCEPT !.similarity_score =
        Combined(results[i].similarity_score, llm_relevance_score(judge[i]))]]

Rerank(results, judge) == SortDesc(Rescored(results, judge))

Error(status, detail) == [kind |-> "error", status |-> status, detail |-> detail]

\* Truncate leaving the list as it is
Truncate_None(rs, n) == rs

\* results[:n] for n >= 0
Truncate(rs, n) == SubSeq(rs, 1, Min(n, Len(rs)))

\* what the judge's chat call may produce: an exception or a reply
JudgeOutcomes ==
  {[ok |-> FALSE, content |-> << >>],
   [ok |-> TRUE, content |-> <<"5">>],
   [ok |-> TRUE, content |-> <<"0">>],
   [ok |-> TRUE, content |-> <<"1", "0">>],
   [ok |-> TRUE, content |-> <<" ", "9", " ">>],
   [ok |-> TRUE, content |-> <<"n", "o">>]}

\* the judge answers each call with some reply, or raises
ApiSearch(req, embed_ok) ==
  /\ LET query == Strip(req.query)
         raw == CollectionQuery(coll.entries, Vec(query), req.n_results + 1, "__root__")
         found == [i \in 1..Len(raw) |-> SearchResult(raw[i])]
         results == Truncate(found, req.n_results)
     IN  IF query.len = 0 THEN out' = Error(400, "Query cannot be empty")
         ELSE IF ~coll.exists THEN out' = Error(400, "No index found")
         ELSE IF ~embed_ok THEN out' = Error(500, "embed")
         ELSE IF req.n_results + 1 <= 0 THEN out' = Error(500, "n_results")
         ELSE IF req.rerank /\ results /= << >>
         THEN \E judge \in [1..Len(results) -> JudgeOutcomes] :
                out' = [kind |-> "search", req |-> req, asked |-> req.n_results + 1,
                        hits |-> Len(raw), ranked |-> results, judge |-> judge,
                        results |-> Rerank(results, judge)]
         ELSE out' = [kind |-> "search", req |-> req, asked |-> req.n_results + 1,
                      hits |-> Len(raw), ranked |-> results, judge |-> << >>,
                      results |-> results]
  /\ UNCHANGED <<fs, now, coll, pc, folder, fingerprint, pages, start,
                 files_seen, result, calls, pre, built, overlapped>>

SystemPrompt == [code |-> 2, len |-> 330]

\* LastTurns keeping the first turns instead
LastTurns_First(history, n) == SubSeq(history, 1, Min(n, Len(history)))

\* history[-10:]
LastTurns(history, n) == SubSeq(history, Max(1, Len(history) - n + 1), Len(history))

ApiChat(req, embed_ok, chat_ok) ==
  /\ LET question == Strip(req.question)
         raw == CollectionQuery(coll.entries, Vec(question), req.n_context + 1, "__root__")
         kept == Min(Len(raw), req.n_context)
         sources == [i \in 1..kept |->
                       [file_path |-> raw[i].metadata.file_path,
                        page_number |-> raw[i].metadata.page_number]]
         context_parts == [i \in 1..kept |->
                       [file_path |-> raw[i].metadata.file_path,
                        page_number |-> raw[i].metadata.page_number,
                        text |-> Prefix(raw[i].document, 1500)]]
         tail == LastTurns(req.history, 10)
         messages ==
           <<[role |-> "system", content |-> SystemPrompt, context |-> context_parts]>>
           \o [i \in 1..Len(tail) |->
                 [role |-> tail[i].role, content |-> tail[i].content, context |-> << >>]]
           \o <<[role |-> "user", content |-> question, context |-> << >>]>>
     IN  out' =
           IF question.len = 0 THEN Error(400, "Question cannot be empty")
           ELSE IF ~coll.exists THEN Error(400, "No index found")
           ELSE IF ~embed_ok THEN Error(500, "embed")
           ELSE IF req.n_context + 1 <= 0 THEN Error(500, "n_results")
           ELSE [kind |-> "chat", req |-> req, status |-> IF chat_ok THEN 200 ELSE 500,
                 hits |-> raw, messages |-> messages,
                 sources |-> IF chat_ok THEN sources ELSE << >>]
  /\ UNCHANGED <<fs, now, coll, pc, folder, fingerprint, pages, start,
                 files_seen, result, calls, pre, built, overlapped>>

\* request inputs
MaxResults == 2
MaxHistory == 11

Queries == {[code |-> 8, len |-> 5, pad |-> 0], [code |-> 1102, len |-> 7, pad |-> 2],
            [code |-> 0, len |-> 0, pad |-> 3]}
SearchRequests ==
  [query : Queries, n_results : -1..MaxResults, rerank : BOOLEAN]

History(n) ==
  [i \in 1..n |-> [role |-> IF i % 2 = 1 THEN "user" ELSE "assistant",
                   content |-> [code |-> 5000 + i, len |-> 10 + i]]]
ChatRequests ==
  {[question |-> q, history |-> History(h), n_context |-> n] :
     q \in Queries, h \in {0, MaxHistory - 1, MaxHistory}, n \in -1..MaxResults}

\* requests are answered between index requests; the embedding service
\* answers or raises
Search ==
  /\ Quiet
  /\ out = NoOut
  /\ \E req \in SearchRequests, embed_ok \in BOOLEAN : ApiSearch(req, embed_ok)

Chat ==
  /\ Quiet
  /\ out = NoOut
  /\ \E req \in ChatRequests, embed_ok \in BOOLEAN, chat_ok \in BOOLEAN :
       ApiChat(req, embed_ok, chat_ok)

\* /rootA holds one short document; /rootB a large and a short one
InitialFolders ==
  [r \in Roots |-> [f \in Files |->
     IF r = "/rootA"
     THEN IF f = "a.pdf" THEN [present |-> TRUE, mtime |-> 0, shape |-> 1]
          ELSE [present |-> FALSE, mtime |-> 0, shape |-> 0]
     ELSE IF f = "a.pdf" THEN [present |-> TRUE, mtime |-> 0, shape |-> 2]
          ELSE [present |-> TRUE, mtime |-> 0, shape |-> 1]]]

Init ==
  /\ fs = InitialFolders
  /\ now = 0
  /\ coll = NoCollection
  /\ pc = [p \in Procs |-> "idle"]
  /\ folder = [p \in Procs |-> "/rootA"]
  /\ fingerprint = [p \in Procs |-> << >>]
  /\ pages = [p \in Procs |-> << >>]
  /\ start = [p \in Procs |-> 0]
  /\ files_seen = [p \in Procs |-> {}]
  /\ result = [p \in Procs |-> NoResult]
  /\ calls = [p \in Procs |-> << >>]
  /\ pre = [p \in Procs |-> NoCollection]
  /\ built = FALSE
  /\ overlapped = FALSE
  /\ out = NoOut

\* one index request at a time
IndexStep(p) ==
  \/ \E r \in Roots : IndexCheck(p, r)
  \/ IndexScan(p)
  \/ IndexDelete(p)
  \/ IndexCreate(p)
  \/ IndexMarker(p)
  \/ IndexBatch(p)
  \/ EmbedFails(p)

FolderChange ==
  \E r \in Roots, f \in Files :
    \/ \E s \in Shapes : WriteFile(r, f, s)
    \/ TouchFile(r, f)
    \/ RemoveFile(r, f)

Next ==
  \/ IndexStep(1)
  \/ FolderChange

Spec == Init /\ [][Next]_vars

\* the query path over the collections that index requests build, complete
\* or cut short by the embedding service; the folders stay as InitialFolders
NextQuery ==
  \/ IndexStep(1)
  \/ Search
  \/ Chat

SpecQuery == Init /\ [][NextQuery]_vars

\* two callers whose index requests interleave at the store and service
\* calls; the folders stay as InitialFolders
NextConc ==
  \/ IndexStep(1)
  \/ IndexStep(2)

SpecConc == Init /\ [][NextConc]_vars

(***************************************************************************)
(* Vocabulary of the properties                                            *)
(***************************************************************************)
AlreadyIndexed == "Already indexed (no changes detected)"
NoSupportedFiles == "No supported files found"

\* the request of p has returned the summary of a completed build
BuiltNow(p) ==
  pc[p] = "done" /\ result[p].status = "ok" /\ result[p].message = NoMessage
\* the request of p has returned the "already indexed" summary
SkippedNow(p) == pc[p] = "done" /\ result[p].message = AlreadyIndexed

Ops(p) == {calls[p][i].op : i \in 1..Len(calls[p])}
WritesNothing(p) == Ops(p) \cap {"embed", "delete", "create", "add"} = {}

\* the folder of p's request is still as the request read it
FolderAsRead(p) == folder_fingerprint(folder[p]) = fingerprint[p]

Markers(es) == {i \in 1..Len(es) : es[i].id = "__root__"}
PageEntries(es) == {i \in 1..Len(es) : es[i].id /= "__root__"}

\* the decision of section 4.4 on the collection as the request found it
Decision(p) ==
  IF ~pre[p].exists \/ Markers(pre[p].entries) = {} THEN "NO_INDEX"
  ELSE LET m == pre[p].entries[CHOOSE i \in Markers(pre[p].entries) : TRUE].metadata
       IN  IF m.root_folder = folder[p] /\ m.fingerprint = fingerprint[p]
           THEN "FRESH" ELSE "STALE"

\* the collection holds exactly the marker and one entry per page of ps
HoldsExactly(es, ps) ==
  /\ Len(es) = Len(ps) + 1
  /\ Cardinality(Markers(es)) = 1
  /\ \A i \in 1..Len(ps) :
       \E j \in PageEntries(es) :
         es[j].id = ps[i].file_path \o "::page_" \o ToString(ps[i].page_number)

(***************************************************************************)
(* C1. Idempotent rebuild-skip: when index_folder(root) has returned from  *)
(* a completed build and the folder's supported files and modification     *)
(* times are as that build read them, the next index_folder(root) returns  *)
(* status ok with the "Already indexed" message and the same total_pages,  *)
(* total_files and files, calls the embedding service not at all and       *)
(* issues no delete, create or add.                                        *)
(***************************************************************************)
C1_RebuildSkip ==
  [][\A p \in Procs, r \in Roots :
       (BuiltNow(p) /\ folder[p] = r /\ FolderAsRead(p) /\ IndexCheck(p, r))
       => /\ pc'[p] = "done"
          /\ result'[p].status = "ok"
          /\ result'[p].message = AlreadyIndexed
          /\ result'[p].total_pages = result[p].total_pages
          /\ result'[p].total_files = result[p].total_files
          /\ result'[p].files = result[p].files
          /\ calls'[p] = << >>
          /\ coll' = coll]_vars

\* a second call has skipped the rebuild of a collection that holds more
\* than one batch of pages of two files
C1_Witness ==
  \E p \in Procs :
    /\ SkippedNow(p) /\ built /\ FolderAsRead(p)
    /\ WritesNothing(p) /\ coll = pre[p]
    /\ result[p].total_pages > batch_size /\ result[p].total_files = 2
    /\ HoldsExactly(coll.entries, scan_folder(folder[p]))

(***************************************************************************)
(* C2. Incremental index decision.  As claimed: every index request that   *)
(* finds NO_INDEX or STALE performs a full delete-and-rebuild of the       *)
(* collection, and only a FRESH match skips it.                            *)
(***************************************************************************)
C2_Original ==
  \A p \in Procs :
    (pc[p] = "done" /\ Decision(p) /= "FRESH")
    => /\ {"delete", "create"} \subseteq Ops(p)
       /\ HoldsExactly(coll.entries, pages[p])

(***************************************************************************)
(* C2 as amended: a request that finds NO_INDEX or STALE takes the rebuild *)
(* path, which deletes the collection and creates a new one before any     *)
(* entry is written when the scan yields at least one Page Record (a       *)
(* completed build then leaves the marker and exactly the scanned pages,   *)
(* nothing of the former collection) and returns the "No supported files"  *)
(* error without touching the collection when the scan yields none; a      *)
(* FRESH match returns "Already indexed" and writes nothing.  No request   *)
(* updates single files.                                                   *)
(***************************************************************************)
C2_Decision ==
  \A p \in Procs :
    /\ (pc[p] \notin {"idle", "scan"} /\ Decision(p) = "FRESH")
       => SkippedNow(p) /\ WritesNothing(p) /\ coll = pre[p]
    /\ (pc[p] \notin {"idle", "scan"} /\ Decision(p) /= "FRESH" /\ pages[p] = << >>)
       => /\ pc[p] = "done" /\ result[p].status = "error"
          /\ WritesNothing(p) /\ coll = pre[p]
    /\ (pc[p] \notin {"idle", "scan", "delete"} /\ Decision(p) /= "FRESH"
          /\ pages[p] /= << >>)
       => /\ calls[p][1].op = "delete"
          /\ Len(calls[p]) >= 2 => calls[p][2].op = "create"
          /\ \A i \in 3..Len(calls[p]) : calls[p][i].op \in {"embed", "add"}
          /\ \A i \in PageEntries(coll.entries) :
               \E j \in 1..Len(pages[p]) :
                 /\ coll.entries[i].metadata.file_path = pages[p][j].file_path
                 /\ coll.entries[i].metadata.page_number = pages[p][j].page_number
                 /\ coll.entries[i].document = pages[p][j].text
    /\ (BuiltNow(p) /\ pc[p] = "done")
       => Decision(p) /= "FRESH" /\ HoldsExactly(coll.entries, pages[p])

\* a STALE request has completed the rebuild of a collection that held
\* another build before
C2_Witness ==
  \E p \in Procs :
    /\ BuiltNow(p) /\ Decision(p) = "STALE"
    /\ Len(pre[p].entries) > 1
    /\ pre[p].entries /= coll.entries
    /\ HoldsExactly(coll.entries, pages[p])

(***************************************************************************)
(* C3. Single-root collection: after any sequence of index requests, each  *)
(* run to its end, once some build has succeeded the collection holds      *)
(* exactly one Root Marker and every other entry comes from the root       *)
(* folder the marker names; a completed build of a new root leaves no      *)
(* entry of the root indexed before.                                       *)
(***************************************************************************)
C3_SingleRoot ==
  (Quiet /\ built)
  => /\ coll.exists
     /\ Cardinality(Markers(coll.entries)) = 1
     /\ \A m \in Markers(coll.entries), i \in PageEntries(coll.entries) :
          coll.entries[i].origin = coll.entries[m].metadata.root_folder

(***************************************************************************)
(* C5. A request on the rebuild path whose folder scan yields no Page      *)
(* Record returns the "No supported files found" error and leaves the      *)
(* collection as it was: no delete, create or add, the same marker and     *)
(* the same entries.                                                       *)
(***************************************************************************)
C5_NoSupportedFiles ==
  \A p \in Procs :
    /\ (pc[p] \notin {"idle", "scan"} /\ Decision(p) /= "FRESH"
          /\ FolderAsRead(p) /\ scan_folder(folder[p]) = << >>)
       => /\ pc[p] = "done"
          /\ result[p].status = "error"
          /\ result[p].message = NoSupportedFiles
          /\ result[p].total_pages = 0
          /\ WritesNothing(p)
          /\ coll = pre[p]
    /\ (pc[p] = "done" /\ result[p].status = "error")
       => pages[p] = << >> /\ coll = pre[p]

\* the error was returned over a collection that holds a completed build
C5_Witness ==
  \E p \in Procs :
    /\ pc[p] = "done" /\ result[p].message = NoSupportedFiles
    /\ Decision(p) = "STALE"
    /\ built /\ Len(coll.entries) > batch_size
    /\ coll = pre[p]

(***************************************************************************)
(* C6. Build-path alignment: a completed rebuild over N >= 1 Page Records  *)
(* leaves, besides the Root Marker, one entry per Page Record with id      *)
(* <file_path>::page_<page_number>, with that record's text, file_path and *)
(* page_number and with the vector the embedding service returned for the  *)
(* record's own text; the service is called once per batch of at most 32   *)
(* records, in order; the call returns total_pages = N and total_files =   *)
(* the number of distinct file paths.                                      *)
(***************************************************************************)
BatchCount(n) == (n + batch_size - 1) \div batch_size
BatchLen(n, b) == Min(batch_size, n - batch_size * (b - 1))

C6_Alignment ==
  \A p \in Procs :
    BuiltNow(p)
    => LET ps == pages[p]
           n == Len(ps)
           es == coll.entries
       IN  /\ n >= 1
           /\ FolderAsRead(p) => ps = scan_folder(folder[p])
           /\ Len(es) = n + 1
           /\ Cardinality(Markers(es)) = 1
           /\ \A i \in 1..n :
                \E j \in 1..Len(es) :
                  /\ es[j].id = ps[i].file_path \o "::page_" \o ToString(ps[i].page_number)
                  /\ es[j].document = ps[i].text
                  /\ es[j].metadata.file_path = ps[i].file_path
                  /\ es[j].metadata.page_number = ps[i].page_number
                  /\ es[j].embedding = Vec(ps[i].text)
           /\ result[p].total_pages = n
           /\ result[p].total_files = Cardinality({ps[i].file_path : i \in 1..n})
           /\ Len(calls[p]) = 4 + 2 * BatchCount(n)
           /\ \A b \in 1..BatchCount(n) :
                /\ calls[p][3 + 2 * b] = Call("embed", BatchLen(n, b))
                /\ calls[p][4 + 2 * b] = Call("add", BatchLen(n, b))

\* a build of more than one batch whose last batch is not full
C6_Witness ==
  \E p \in Procs :
    /\ BuiltNow(p)
    /\ Len(pages[p]) > batch_size
    /\ Len(pages[p]) % batch_size /= 0
    /\ result[p].total_files = 2

(***************************************************************************)
(* C10. Fresh implies complete: whenever an index request returns the      *)
(* "Already indexed" result for a folder, the collection holds an entry    *)
(* for every Page Record of the folder's scan and total_pages is the       *)
(* length of that scan, also after a rebuild of the folder that the        *)
(* embedding service aborted.                                              *)
(***************************************************************************)
C10_FreshComplete ==
  \A p \in Procs :
    (SkippedNow(p) /\ FolderAsRead(p))
    => LET ps == scan_folder(folder[p])
       IN  /\ result[p].total_pages = Len(ps)
           /\ \A i \in 1..Len(ps) :
                ps[i].file_path \o "::page_" \o ToString(ps[i].page_number)
                  \in EntryIds(coll.entries)

(***************************************************************************)
(* C4. Root exclusion: no entry of a search result has file_path           *)
(* "__root__", for any query, any n_results, rerank on or off, on any      *)
(* collection index requests leave.                                        *)
(***************************************************************************)
C4_RootExclusion ==
  out.kind = "search"
  => \A i \in 1..Len(out.results) : out.results[i].file_path /= "__root__"

\* a search whose query is nearest to the stored marker and that asked for
\* more neighbours than the collection has pages
C4_Witness ==
  /\ out.kind = "search"
  /\ out.results /= << >>
  /\ out.hits < out.asked
  /\ \E m \in Markers(coll.entries) :
       Distance(Vec(out.req.query), coll.entries[m].embedding) = 0

(***************************************************************************)
(* C7. Search result count.  As claimed: the store is queried for n+1      *)
(* neighbours and the final result list has exactly n entries.             *)
(***************************************************************************)
C7_Original ==
  out.kind = "search"
  => /\ out.asked = out.req.n_results + 1
     /\ Len(out.results) = out.req.n_results

(***************************************************************************)
(* C7 as amended: the store is queried for n+1 neighbours and the final    *)
(* result list is cut to at most n entries: it has min(n, number of page   *)
(* entries of the collection) entries, n of them only when the collection  *)
(* holds at least n pages.                                                 *)
(***************************************************************************)
C7_ResultCount ==
  out.kind = "search"
  => LET n == out.req.n_results
         stored == Cardinality(PageEntries(coll.entries))
     IN  /\ n >= 0
         /\ out.asked = n + 1
         /\ out.hits = Min(n + 1, stored)
         /\ Len(out.results) = Min(n, stored)
         /\ Len(out.results) <= n

\* the store returned n+1 hits and the list was cut to n
C7_Witness ==
  /\ out.kind = "search"
  /\ out.req.n_results >= 1
  /\ out.hits = out.req.n_results + 1
  /\ Len(out.results) = out.req.n_results

(***************************************************************************)
(* C8. Rerank ordering: with rerank requested and at least one result,     *)
(* every score becomes 0.6 * similarity + 0.4 * (rating / 5) rounded to 4  *)
(* decimals, where rating is the judge's integer clamped to [1,5], or 3    *)
(* if the judge fails, and the list is the same results in descending      *)
(* order of the new score, equal scores keeping their order.               *)
(***************************************************************************)
\* the integer a reply denotes: its digits read in base ten
RECURSIVE Decimal(_)
Decimal(cs) ==
  IF cs = << >> THEN 0 ELSE 10 * Decimal(SubSeq(cs, 1, Len(cs) - 1)) + DigitValue(cs[Len(cs)])

IsInteger(cs) == cs /= << >> /\ \A i \in 1..Len(cs) : IsDigit(cs[i])

JudgeRating(outcome) ==
  IF outcome.ok /\ IsInteger(StripChars(outcome.content))
  THEN Max(1, Min(5, Decimal(StripChars(outcome.content))))
  ELSE 3

C8_Rerank ==
  (out.kind = "search" /\ out.req.rerank /\ out.ranked /= << >>)
  => LET n == Len(out.ranked)
         fused(i) == (6 * out.ranked[i].similarity_score
                      + 8000 * JudgeRating(out.judge[i]) + 5) \div 10
     IN  /\ Len(out.results) = n
         /\ \E f \in [1..n -> 1..n] :
              /\ \A i, j \in 1..n : i /= j => f[i] /= f[j]
              /\ \A k \in 1..n :
                   out.results[k] =
                     [out.ranked[f[k]] EXCEPT !.similarity_score = fused(f[k])]
              /\ \A k, l \in 1..n :
                   k < l => \/ fused(f[k]) > fused(f[l])
                            \/ fused(f[k]) = fused(f[l]) /\ f[k] < f[l]

(***************************************************************************)
(* C9. Chat context bounds: the messages sent to the chat service are one  *)
(* system message, the last min(10, len(history)) history turns in their   *)
(* order, then the user question; the context is built from the first      *)
(* min(n_context, hits) retrieved pages, each with at most the first 1500  *)
(* characters of its text; the returned sources are the (file_path,        *)
(* page_number) of exactly those pages, in the same order.                 *)
(***************************************************************************)
C9_ChatContext ==
  out.kind = "chat"
  => LET h == out.req.history
         m == IF Len(h) < 10 THEN Len(h) ELSE 10
         k == IF out.req.n_context < Len(out.hits)
              THEN out.req.n_context ELSE Len(out.hits)
         msgs == out.messages
     IN  /\ Len(out.hits) <= out.req.n_context + 1
         /\ Len(msgs) = m + 2
         /\ msgs[1].role = "system"
         /\ \A i \in 1..m :
              /\ msgs[1 + i].role = h[Len(h) - m + i].role
              /\ msgs[1 + i].content = h[Len(h) - m + i].content
         /\ msgs[m + 2].role = "user"
         /\ msgs[m + 2].content =
              [code |-> out.req.question.code, len |-> out.req.question.len]
         /\ Len(msgs[1].context) = k
         /\ \A i \in 1..k :
              /\ msgs[1].context[i].file_path = out.hits[i].metadata.file_path
              /\ msgs[1].context[i].page_number = out.hits[i].metadata.page_number
              /\ msgs[1].context[i].text.code = out.hits[i].document.code
              /\ msgs[1].context[i].text.len =
                   (IF out.hits[i].document.len < 1500
                    THEN out.hits[i].document.len ELSE 1500)
         /\ out.status = 200
            => /\ Len(out.sources) = k
               /\ \A i \in 1..k :
                    out.sources[i] =
                      [file_path |-> out.hits[i].metadata.file_path,
                       page_number |-> out.hits[i].metadata.page_number]

\* an answered chat with more history than is kept, more hits than are
\* used and a page text that was cut
C9_Witness ==
  /\ out.kind = "chat"
  /\ out.status = 200
  /\ Len(out.req.history) > 10
  /\ out.req.n_context >= 1
  /\ Len(out.hits) > out.req.n_context
  /\ \E i \in 1..Len(out.sources) : out.hits[i].document.len > 1500

\* ---- concurrent index requests ----

\* some page entry was produced from another root than the marker names
MixedRoots ==
  /\ coll.exists
  /\ \E m \in Markers(coll.entries), i \in PageEntries(coll.entries) :
       coll.entries[i].origin /= coll.entries[m].metadata.root_folder

LastOp(p) == calls[p][Len(calls[p])].op

\* p's request raised at create_collection: the name was taken
CreateRefused(p) ==
  /\ pc[p] = "failed"
  /\ calls[p] /= << >>
  /\ LastOp(p) = "create"

\* p's request raised at collection.add: its collection was deleted
WriteLost(p) ==
  /\ pc[p] = "failed"
  /\ calls[p] /= << >>
  /\ LastOp(p) = "add"

RaceDamage ==
  \/ MixedRoots
  \/ \E p \in Procs : CreateRefused(p) \/ WriteLost(p)

\* C11: as long as no index request has started while another was running,
\* the collection never holds page entries of a root other than the one
\* its Root Marker names, and no request fails at create_collection (name
\* taken) or at collection.add (collection deleted); with two requests
\* for different roots interleaving, such a state is reached (C11_Witness).
C11_OneAtATime == RaceDamage => overlapped

\* two requests for different roots overlapped and one of them lost its
\* collection to the other's delete_collection before an add
C11_Witness ==
  /\ overlapped
  /\ folder[1] /= folder[2]
  /\ \E p \in Procs : WriteLost(p)
  /\ RaceDamage

====
